---------------------------- MODULE Spec2Model ----------------------------
(***************************************************************************)
(* Model of the face-swap service (src/main_fixed.py, src/runpod_handler.py) *)
(*                                                                         *)
(*  - the memoised engine loader get_cached_models / prepare_app with the  *)
(*    retry-within-variant, then next-variant swapper loading of            *)
(*    load_swapper_model_with_recovery,                                     *)
(*  - the model files on disk, validate_onnx_model and fix_corrupted_model, *)
(*  - the request pipeline perform_face_swap_logic and its front ends.      *)
(*                                                                         *)
(* Two schedulers are modelled.  SpecThreads lets several threads call      *)
(* prepare_app; their steps interleave freely because functools.lru_cache   *)
(* holds no lock while the wrapped function runs.  Spec is the service as   *)
(* uvicorn runs it: startup_event calls prepare_app once, then every        *)
(* handler is a coroutine without a suspension point, so one handler runs   *)
(* to completion on the event loop before the next one starts.              *)
(* SpecCalls is one caller that calls prepare_app repeatedly, on any disk   *)
(* of a few files; SpecStore applies the model file functions to any disk.  *)
(* SpecFrontEnds adds the worker's handler to the service; SpecPure calls   *)
(* sort_faces and validate_and_resize_image on their own.                   *)
(***************************************************************************)
EXTENDS Integers, Sequences, FiniteSets, TLC

(***************************************************************************)
(* Bounds of the model                                                     *)
(***************************************************************************)
NumThreads == 2      \* threads that call prepare_app in SpecThreads
MaxCalls == 3        \* calls of get_cached_models over one behaviour
MaxFiles == 2        \* model files on the disk when the loader starts

(***************************************************************************)
(* Program constants                                                       *)
(***************************************************************************)
max_retries == 3     \* load_swapper_model_with_recovery(model_path, max_retries=3)

\* the full-precision variant tried first
model_paths_full_precision_first ==
    <<"inswapper_128.onnx", "inswapper_128.fp16.onnx">>

model_paths == <<"inswapper_128.fp16.onnx", "inswapper_128.onnx">>

VariantSet == {model_paths[i] : i \in 1..Len(model_paths)}

None == "None"

(***************************************************************************)
(* Model files on disk.  A location is <<directory, file name>>; the        *)
(* relative path and its os.path.abspath name the same file in "cwd".       *)
(***************************************************************************)
Dirs == {"cwd", "home", "root"}

Locations == Dirs \X VariantSet

\* "empty" is a file of zero bytes, "corrupt" any other file that is no model
FileStates == {"absent", "valid", "corrupt", "empty"}

\* the cache directories probed before the working directory
possible_paths_cache_first(model_path) ==
    << <<"home", model_path>>, <<"root", model_path>>,
       <<"cwd", model_path>>, <<"cwd", model_path>> >>

possible_paths(model_path) ==
    << <<"cwd", model_path>>, <<"cwd", model_path>>,
       <<"home", model_path>>, <<"root", model_path>> >>

\* the directories fix_corrupted_model sweeps for *.onnx files
cache_paths == {"home", "root"}

\* for path in possible_paths: if os.path.exists(path): ... break
RECURSIVE FirstExisting(_, _, _)
FirstExisting(f, paths, i) ==
    IF i > Len(paths) THEN None
    ELSE IF f[paths[i]] # "absent" THEN paths[i]
    ELSE FirstExisting(f, paths, i + 1)

Locate(f, model_path) == FirstExisting(f, possible_paths(model_path), 1)

\* validate_onnx_model, statement by statement: the existence test, the
\* size that is only logged, then ort.InferenceSession, which parses the
\* file and raises on anything but a model
validate_onnx_model_run(f, path) ==
    IF f[path] = "absent"
    THEN [result |-> FALSE, file_size |-> 0 - 1, parse_started |-> FALSE]
    ELSE [result |-> f[path] = "valid",
          file_size |-> IF f[path] = "empty" THEN 0 ELSE 1,
          parse_started |-> TRUE]

validate_onnx_model(f, path) == validate_onnx_model_run(f, path).result

\* rmOk: os.remove(model_path) succeeds; stuck: cache directories whose
\* files cannot be removed (each failure is caught and only logged)
fix_corrupted_model(f, path, rmOk, stuck) ==
    IF f[path] # "absent" /\ ~rmOk
    THEN [ok |-> FALSE, fs |-> f]
    ELSE [ok |-> TRUE,
          fs |-> [l \in Locations |->
                    IF l = path THEN "absent"
                    ELSE IF l[1] \in cache_paths /\ l[1] \notin stuck
                         THEN "absent"
                    ELSE f[l]]]

\* a backup that cannot be made aborts the repair
fix_corrupted_model_run_backup_fatal(f, path, backupOk, rmOk, stuck) ==
    IF f[path] # "absent" /\ ~backupOk
    THEN [ok |-> FALSE, fs |-> f, backup |-> FALSE]
    ELSE [ok |-> fix_corrupted_model(f, path, rmOk, stuck).ok,
          fs |-> fix_corrupted_model(f, path, rmOk, stuck).fs,
          backup |-> f[path] # "absent"]

\* fix_corrupted_model with its backup step: shutil.copy2 to path.backup is
\* tried when the file exists, and its failure (backupOk false) is caught
\* and logged; the backup is no candidate location
fix_corrupted_model_run(f, path, backupOk, rmOk, stuck) ==
    [ok |-> fix_corrupted_model(f, path, rmOk, stuck).ok,
     fs |-> fix_corrupted_model(f, path, rmOk, stuck).fs,
     backup |-> f[path] # "absent" /\ backupOk]

(***************************************************************************)
(* State                                                                   *)
(***************************************************************************)
VARIABLES
    fs,                 \* model files: Locations -> FileStates
    cache,              \* the lru_cache(maxsize=1) slot of get_cached_models
    face_analysis_app,  \* module global, 0 is None
    swapper_model,      \* module global, 0 is None
    calls,              \* number of get_cached_models calls so far
    bodies,             \* number of times the wrapped function body started
    successInits,       \* number of bodies that returned a bundle
    call,               \* per caller: position and locals of prepare_app
    loop,               \* the handler that runs on the event loop, or None
    req,                \* the swap request being handled: locals and history
    resp,               \* the response of the handler that ran last
    repaired,           \* /fix-model succeeded since the engines were loaded
    store,              \* the last direct call of a model file function
    waiting             \* swap requests received whose handler has not started

vars == <<fs, cache, face_analysis_app, swapper_model, calls, bodies,
          successInits, call, loop, req, resp, repaired, store, waiting>>

svcVars == <<loop, req, resp, repaired, store, waiting>>

Threads == 1..NumThreads

Callers == 0..NumThreads     \* caller 0 is startup_event / initialize

NoBundle == [fa |-> 0, sw |-> 0, variant |-> None]

IdleCall ==
    [pc |-> "idle", id |-> 0, vi |-> 0, attempt |-> 0, local |-> None,
     fa |-> 0, res |-> NoBundle, err |-> None, hit |-> FALSE,
     built |-> 0, log |-> <<>>, loads |-> 0,
     how |-> None, out |-> None, fixed |-> None,
     vfix |-> 0, efix |-> 0,
     fails |-> [v \in VariantSet |-> 0]]

NoExc == [type |-> None, status |-> 0, detail |-> None, have |-> 0,
          requested |-> 0]

NoRequest ==
    [pc |-> "idle", source_index |-> 1, target_index |-> 1,
     source_image |-> None, target_image |-> None,
     source_faces |-> <<>>, target_faces |-> <<>>,
     source_face |-> None, target_face |-> None,
     result |-> None, exc |-> NoExc, cause |-> None,
     fetches |-> 0, buffered |-> 0, detects |-> 0, selects |-> 0,
     swaps |-> 0, encodes |-> 0, gcs |-> 0]

NoResponse ==
    [handler |-> None, status |-> 0, success |-> "absent",
     image |-> "absent", message |-> None, have |-> 0, requested |-> 0,
     model_file_valid |-> FALSE, active_model |-> None]

NoStoreOp ==
    [op |-> None, variant |-> None, ok |-> FALSE, file_size |-> 0 - 1,
     parse_started |-> FALSE]

\* the disks the loader starts on: any files in any candidate locations,
\* MaxFiles of them at most
InitFiles ==
    {f \in [Locations -> FileStates] :
        Cardinality({l \in Locations : f[l] # "absent"}) <= MaxFiles}

Init ==
    /\ fs \in InitFiles
    /\ cache = NoBundle
    /\ face_analysis_app = 0
    /\ swapper_model = 0
    /\ calls = 0
    /\ bodies = 0
    /\ successInits = 0
    /\ call = [c \in Callers |-> IdleCall]
    /\ loop = None
    /\ req = NoRequest
    /\ resp = NoResponse
    /\ repaired = FALSE
    /\ store = NoStoreOp
    /\ waiting = 0


(***************************************************************************)
(* functools.lru_cache(maxsize=1) around get_cached_models: a hit returns   *)
(* the stored value; on a miss the wrapped function runs with no lock held  *)
(* and its result is stored unless another call stored one meanwhile; an    *)
(* exception stores nothing.                                                *)
(***************************************************************************)
\* a cache that never answers from its slot
lru_hit_never(slot) == FALSE

lru_hit(slot) == slot # NoBundle

lru_store(slot, result) == IF slot = NoBundle THEN result ELSE slot

\* a repair also follows the last attempt on a variant
may_retry_after_last(attempt) == attempt <= max_retries - 1

\* the retry test off by one: one attempt more than max_retries
may_retry_once_more(attempt) == attempt < max_retries

\* for attempt in range(max_retries): ... if attempt < max_retries - 1: retry
may_retry(attempt) == attempt < max_retries - 1

\* the variant loop gives up after the first variant
has_next_variant_never(vi) == FALSE

\* for model_path in model_paths: ... continue
has_next_variant(vi) == vi < Len(model_paths)

\* the file a download leaves in the InsightFace cache of the user
download_path(model_path) == <<"home", model_path>>

FetchOutcomes == {"ok", "raise", "none"}

LoadOutcomes == {"ok", "raise", "none"}

(***************************************************************************)
(* get_cached_models, entered through prepare_app by caller c               *)
(***************************************************************************)
get_cached_models_enter(c) ==
    /\ call[c].pc = "idle"
    /\ calls < MaxCalls
    /\ calls' = calls + 1
    /\ IF lru_hit(cache)
       THEN /\ call' = [call EXCEPT ![c] =
                    [IdleCall EXCEPT !.pc = "store_fa", !.res = cache,
                                     !.hit = TRUE]]
            /\ UNCHANGED bodies
       ELSE /\ call' = [call EXCEPT ![c] =
                    [IdleCall EXCEPT !.pc = "locator", !.id = bodies + 1]]
            /\ bodies' = bodies + 1
    /\ UNCHANGED <<fs, cache, face_analysis_app, swapper_model, successInits>>
    /\ UNCHANGED svcVars

\* a locator that could not be built is ignored and the swapper is loaded
FaceAnalysis_prepare_failure_ignored(c) ==
    /\ call[c].pc = "locator"
    /\ \E ok \in BOOLEAN :
        call' = [call EXCEPT ![c] =
            IF ok
            THEN [call[c] EXCEPT !.pc = "attempt", !.fa = call[c].id,
                                 !.built = 1, !.vi = 1, !.attempt = 0]
            ELSE [call[c] EXCEPT !.pc = "attempt", !.built = 1,
                                 !.err = "locator", !.vi = 1,
                                 !.attempt = 0]]
    /\ UNCHANGED <<fs, cache, face_analysis_app, swapper_model, calls,
                   bodies, successInits>>
    /\ UNCHANGED svcVars

\* FaceAnalysis(name='buffalo_l'); prepare(ctx_id=0, det_size=(640, 640))
FaceAnalysis_prepare(c) ==
    /\ call[c].pc = "locator"
    /\ \E ok \in BOOLEAN :
        call' = [call EXCEPT ![c] =
            IF ok
            THEN [call[c] EXCEPT !.pc = "attempt", !.fa = call[c].id,
                                 !.built = 1, !.vi = 1, !.attempt = 0]
            ELSE [call[c] EXCEPT !.pc = "raised", !.built = 1,
                                 !.err = "locator"]]
    /\ UNCHANGED <<fs, cache, face_analysis_app, swapper_model, calls,
                   bodies, successInits>>
    /\ UNCHANGED svcVars

\* the state of caller c after the try block of one attempt: the files as
\* the attempt left them, the path it resolved, and how it ended
\* (how: get_model was called on a local file, or to download because no
\* file was found, or to download again after a repair, or not at all)
AttemptEnds(c, f, path, outcome, how) ==
    LET v == model_paths[call[c].vi]
        cur == call[c]
        base == [cur EXCEPT !.local = path, !.fixed = None,
                            !.log = Append(@, v),
                            !.how = how, !.out = outcome,
                            !.loads = @ + (IF how # "none" THEN 1 ELSE 0),
                            !.vfix = @ + (IF how = "redownload"
                                             \/ outcome = "fixfailed"
                                          THEN 1 ELSE 0)]
    IN  /\ fs' = f
        /\ call' = [call EXCEPT ![c] =
              IF outcome = "ok"
              THEN [base EXCEPT !.pc = "loaded",
                        !.res = [fa |-> cur.fa, sw |-> cur.id, variant |-> v]]
              ELSE [base EXCEPT !.pc = "except",
                        !.fails = [@ EXCEPT ![v] = @ + 1]]]

\* insightface.model_zoo.get_model(local_model_path, download=False)
load_local(c, f, path) ==
    \E out \in LoadOutcomes : AttemptEnds(c, f, path, out, "local")

\* insightface.model_zoo.get_model(model_name, download=True): local_model_path
\* is set only when the call returns
load_download(c, f, how) ==
    LET v == model_paths[call[c].vi]
        p == download_path(v)
    IN  \E out \in FetchOutcomes :
            CASE out = "ok" ->
                    AttemptEnds(c, [f EXCEPT ![p] = "valid"], p, "ok", how)
              [] out = "none" ->
                    AttemptEnds(c, f, p, "none", how)
              [] OTHER ->
                    \E left \in {f[p], "corrupt"} :
                        AttemptEnds(c, [f EXCEPT ![p] = left], None,
                                    "raise", how)

\* a repaired file is not fetched again: the attempt raises after the fix
load_attempt_gives_up_after_fix(c) ==
    /\ call[c].pc = "attempt"
    /\ LET v == model_paths[call[c].vi]
           found == Locate(fs, v)
       IN  IF found # None /\ ~validate_onnx_model(fs, found)
           THEN \E rmOk \in BOOLEAN, stuck \in SUBSET cache_paths :
                   LET r == fix_corrupted_model(fs, found, rmOk, stuck)
                   IN  AttemptEnds(c, r.fs, found, "fixfailed", "none")
           ELSE IF found # None
                THEN load_local(c, fs, found)
                ELSE load_download(c, fs, "download")
    /\ UNCHANGED <<cache, face_analysis_app, swapper_model, calls, bodies,
                   successInits>>
    /\ UNCHANGED svcVars

\* a located file is loaded without being validated
load_attempt_loads_unvalidated(c) ==
    /\ call[c].pc = "attempt"
    /\ LET v == model_paths[call[c].vi]
           found == Locate(fs, v)
       IN  IF found # None
           THEN load_local(c, fs, found)
           ELSE load_download(c, fs, "download")
    /\ UNCHANGED <<cache, face_analysis_app, swapper_model, calls, bodies,
                   successInits>>
    /\ UNCHANGED svcVars

\* one pass through the try block of load_swapper_model_with_recovery
load_attempt(c) ==
    /\ call[c].pc = "attempt"
    /\ LET v == model_paths[call[c].vi]
           found == Locate(fs, v)
       IN  IF found # None /\ ~validate_onnx_model(fs, found)
           THEN \E rmOk \in BOOLEAN, stuck \in SUBSET cache_paths :
                   LET r == fix_corrupted_model(fs, found, rmOk, stuck)
                   IN  IF ~r.ok
                       THEN AttemptEnds(c, r.fs, found, "fixfailed", "none")
                       ELSE load_download(c, r.fs, "redownload")
           ELSE IF found # None
                THEN load_local(c, fs, found)
                ELSE load_download(c, fs, "download")
    /\ UNCHANGED <<cache, face_analysis_app, swapper_model, calls, bodies,
                   successInits>>
    /\ UNCHANGED svcVars

\* the next attempt starts without a repair
load_except_retries_without_repair(c) ==
    /\ call[c].pc = "except"
    /\ LET cur == call[c]
       IN  /\ fs' = fs
           /\ call' = [call EXCEPT ![c] =
                 IF may_retry(cur.attempt)
                 THEN [cur EXCEPT !.pc = "attempt", !.attempt = @ + 1,
                                  !.local = None, !.how = None,
                                  !.out = None]
                 ELSE IF has_next_variant(cur.vi)
                 THEN [cur EXCEPT !.pc = "attempt", !.vi = @ + 1,
                                  !.attempt = 0, !.local = None,
                                  !.vfix = 0, !.efix = 0,
                                  !.how = None, !.out = None]
                 ELSE [cur EXCEPT !.pc = "raised", !.err = "swapper",
                                  !.local = None, !.how = None,
                                  !.out = None]]
    /\ UNCHANGED <<cache, face_analysis_app, swapper_model, calls, bodies,
                   successInits>>
    /\ UNCHANGED svcVars

\* without a resolved local path the repair targets the download location
load_except_repairs_download_path(c) ==
    /\ call[c].pc = "except"
    /\ LET cur == call[c]
           v == model_paths[cur.vi]
           target == IF cur.local # None THEN cur.local ELSE download_path(v)
       IN  IF may_retry(cur.attempt)
           THEN \E rmOk \in BOOLEAN, stuck \in SUBSET cache_paths :
                   /\ fs' = fix_corrupted_model(fs, target, rmOk, stuck).fs
                   /\ call' = [call EXCEPT ![c] =
                         [cur EXCEPT !.pc = "attempt", !.attempt = @ + 1,
                                     !.local = None, !.how = None,
                                     !.out = None, !.fixed = target,
                                     !.efix = @ + 1]]
           ELSE /\ fs' = fs
                /\ call' = [call EXCEPT ![c] =
                      IF has_next_variant(cur.vi)
                      THEN [cur EXCEPT !.pc = "attempt", !.vi = @ + 1,
                                       !.attempt = 0, !.local = None,
                                       !.vfix = 0, !.efix = 0,
                                       !.how = None, !.out = None]
                      ELSE [cur EXCEPT !.pc = "raised", !.err = "swapper",
                                       !.local = None, !.how = None,
                                       !.out = None]]
    /\ UNCHANGED <<cache, face_analysis_app, swapper_model, calls, bodies,
                   successInits>>
    /\ UNCHANGED svcVars

\* the locator that was built is published when the swapper cannot be loaded
load_except_publishes_locator(c) ==
    /\ call[c].pc = "except"
    /\ LET cur == call[c]
           v == model_paths[cur.vi]
           target == IF cur.local # None THEN cur.local ELSE <<"cwd", v>>
       IN  IF may_retry(cur.attempt)
           THEN \E rmOk \in BOOLEAN, stuck \in SUBSET cache_paths :
                   /\ fs' = fix_corrupted_model(fs, target, rmOk, stuck).fs
                   /\ face_analysis_app' = face_analysis_app
                   /\ call' = [call EXCEPT ![c] =
                         [cur EXCEPT !.pc = "attempt", !.attempt = @ + 1,
                                     !.local = None, !.how = None,
                                     !.out = None, !.fixed = target,
                                     !.efix = @ + 1]]
           ELSE /\ fs' = fs
                /\ face_analysis_app' = IF has_next_variant(cur.vi)
                                        THEN face_analysis_app ELSE cur.fa
                /\ call' = [call EXCEPT ![c] =
                      IF has_next_variant(cur.vi)
                      THEN [cur EXCEPT !.pc = "attempt", !.vi = @ + 1,
                                       !.attempt = 0, !.local = None,
                                       !.vfix = 0, !.efix = 0,
                                       !.how = None, !.out = None]
                      ELSE [cur EXCEPT !.pc = "raised", !.err = "swapper",
                                       !.local = None, !.how = None,
                                       !.out = None]]
    /\ UNCHANGED <<cache, swapper_model, calls, bodies, successInits>>
    /\ UNCHANGED svcVars

\* the except block: repair and retry, or give the variant up; then the
\* loop of get_cached_models moves to the next variant or raises
load_except(c) ==
    /\ call[c].pc = "except"
    /\ LET cur == call[c]
           v == model_paths[cur.vi]
           target == IF cur.local # None THEN cur.local ELSE <<"cwd", v>>
       IN  IF may_retry(cur.attempt)
           THEN \E rmOk \in BOOLEAN, stuck \in SUBSET cache_paths :
                   /\ fs' = fix_corrupted_model(fs, target, rmOk, stuck).fs
                   /\ call' = [call EXCEPT ![c] =
                         [cur EXCEPT !.pc = "attempt", !.attempt = @ + 1,
                                     !.local = None, !.how = None,
                                     !.out = None, !.fixed = target,
                                     !.efix = @ + 1]]
           ELSE /\ fs' = fs
                /\ call' = [call EXCEPT ![c] =
                      IF has_next_variant(cur.vi)
                      THEN [cur EXCEPT !.pc = "attempt", !.vi = @ + 1,
                                       !.attempt = 0, !.local = None,
                                       !.vfix = 0, !.efix = 0,
                                       !.how = None, !.out = None]
                      ELSE [cur EXCEPT !.pc = "raised", !.err = "swapper",
                                       !.local = None, !.how = None,
                                       !.out = None]]
    /\ UNCHANGED <<cache, face_analysis_app, swapper_model, calls, bodies,
                   successInits>>
    /\ UNCHANGED svcVars

\* return face_analysis_app, swapper_model: the wrapper stores the result
get_cached_models_return(c) ==
    /\ call[c].pc = "loaded"
    /\ cache' = lru_store(cache, call[c].res)
    /\ successInits' = successInits + 1
    /\ call' = [call EXCEPT ![c] =
                    [IdleCall EXCEPT !.pc = "store_fa", !.res = call[c].res,
                                     !.built = call[c].built]]
    /\ UNCHANGED <<fs, face_analysis_app, swapper_model, calls, bodies>>
    /\ UNCHANGED svcVars

\* prepare_app: face_analysis_app, swapper_model = get_cached_models()
\* is two STORE_GLOBAL instructions
prepare_app_store_fa(c) ==
    /\ call[c].pc = "store_fa"
    /\ face_analysis_app' = call[c].res.fa
    /\ call' = [call EXCEPT ![c].pc = "store_sw"]
    /\ UNCHANGED <<fs, cache, swapper_model, calls, bodies, successInits>>
    /\ UNCHANGED svcVars

prepare_app_store_sw(c) ==
    /\ call[c].pc = "store_sw"
    /\ swapper_model' = call[c].res.sw
    /\ call' = [call EXCEPT ![c].pc = "returned"]
    /\ UNCHANGED <<fs, cache, face_analysis_app, calls, bodies, successInits>>
    /\ UNCHANGED svcVars

\* the caller has its result (or the exception) and may call again
caller_again(c) ==
    /\ call[c].pc \in {"returned", "raised"}
    /\ calls < MaxCalls
    /\ call' = [call EXCEPT ![c] = IdleCall]
    /\ UNCHANGED <<fs, cache, face_analysis_app, swapper_model, calls,
                   bodies, successInits>>
    /\ UNCHANGED svcVars

prepare_app(c) ==
    \/ get_cached_models_enter(c)
    \/ FaceAnalysis_prepare(c)
    \/ load_attempt(c)
    \/ load_except(c)
    \/ get_cached_models_return(c)
    \/ prepare_app_store_fa(c)
    \/ prepare_app_store_sw(c)

(***************************************************************************)
(* Threads calling prepare_app                                             *)
(***************************************************************************)
\* each thread calls prepare_app once
NextThreads == \E c \in Threads : prepare_app(c)

\* the threads start on a disk that holds nothing, or a damaged download of
\* the first variant, or an intact copy of the second in the working directory
InitFilesThreads ==
    {f \in InitFiles :
        /\ f[<<"cwd", model_paths[1]>>] = "absent"
        /\ f[<<"root", model_paths[1]>>] = "absent"
        /\ f[<<"home", model_paths[1]>>] \in {"absent", "corrupt"}
        /\ f[<<"home", model_paths[2]>>] = "absent"
        /\ f[<<"root", model_paths[2]>>] = "absent"
        /\ f[<<"cwd", model_paths[2]>>] \in {"absent", "valid"}}

InitThreads == Init /\ fs \in InitFilesThreads

SpecThreads == InitThreads /\ [][NextThreads]_vars


(***************************************************************************)
(* One caller that calls prepare_app again and again                       *)
(***************************************************************************)
NextCalls ==
    \/ prepare_app(0)
    \/ caller_again(0)

SpecCalls == Init /\ [][NextCalls]_vars

(***************************************************************************)
(* The model file functions on their own: validate_onnx_model on any path   *)
(* of any disk, and the locate / validate / fix_corrupted_model sequence of *)
(* the loader on any variant whose located file is bad                      *)
(***************************************************************************)
AllFiles == [Locations -> FileStates]

storeFrame == UNCHANGED <<cache, face_analysis_app, swapper_model, calls,
                          bodies, successInits, call, loop, req, resp,
                          repaired, waiting>>

store_validate ==
    /\ \E path \in Locations :
          LET run == validate_onnx_model_run(fs, path)
          IN  store' = [op |-> "validate", variant |-> path[2],
                        ok |-> run.result, file_size |-> run.file_size,
                        parse_started |-> run.parse_started]
    /\ UNCHANGED fs
    /\ storeFrame

\* if not validate_onnx_model(local_model_path):
\*     if not fix_corrupted_model(local_model_path): raise
store_repair ==
    /\ \E v \in VariantSet, backupOk \in BOOLEAN, rmOk \in BOOLEAN,
          stuck \in SUBSET cache_paths :
          LET found == Locate(fs, v)
          IN  /\ found # None
              /\ ~validate_onnx_model(fs, found)
              /\ LET r == fix_corrupted_model_run(fs, found, backupOk, rmOk,
                                                  stuck)
                 IN  /\ fs' = r.fs
                     /\ store' = [op |-> "repair", variant |-> v,
                                  ok |-> r.ok, file_size |-> 0 - 1,
                                  parse_started |-> FALSE,
                                  path |-> found, backup |-> r.backup,
                                  backupOk |-> backupOk, rmOk |-> rmOk,
                                  stuck |-> stuck]
    /\ storeFrame

\* the candidate locations loop of load_swapper_model_with_recovery
store_locate ==
    /\ \E v \in VariantSet :
          store' = [op |-> "locate", variant |-> v, found |-> Locate(fs, v)]
    /\ UNCHANGED fs
    /\ storeFrame

NextStore ==
    \/ store_validate
    \/ store_repair
    \/ store_locate

InitStore ==
    /\ fs \in AllFiles
    /\ cache = NoBundle
    /\ face_analysis_app = 0
    /\ swapper_model = 0
    /\ calls = 0
    /\ bodies = 0
    /\ successInits = 0
    /\ call = [c \in Callers |-> IdleCall]
    /\ loop = None
    /\ req = NoRequest
    /\ resp = NoResponse
    /\ repaired = FALSE
    /\ store = NoStoreOp
    /\ waiting = 0

SpecStore == InitStore /\ [][NextStore]_vars

(***************************************************************************)
(* The request pipeline: pure parts                                        *)
(***************************************************************************)
MaxFaces == 2        \* faces one detection returns, at most
MaxWaiting == 1      \* swap requests that wait for the event loop

BoxLefts == {10, 20}     \* bbox[0] of a detection

Indexes == (0 - 1)..(MaxFaces + 1)   \* source_index, target_index of a request

BoxLists == UNION {[1..n -> BoxLefts] : n \in 0..MaxFaces}

\* what face_analysis_app.get returns: detections in detection order
Detections(xs) == [i \in 1..Len(xs) |-> [id |-> i, x |-> xs[i]]]

HTTPException(status, detail) ==
    [type |-> "HTTPException", status |-> status, detail |-> detail,
     have |-> 0, requested |-> 0]

Exception(detail) ==
    [type |-> "Exception", status |-> 0, detail |-> detail,
     have |-> 0, requested |-> 0]

\* a sort that puts the larger left edge first
RECURSIVE InsertFace_descending(_, _)
InsertFace_descending(sorted, face) ==
    IF sorted = <<>> THEN <<face>>
    ELSE IF face.x > Head(sorted).x THEN <<face>> \o sorted
    ELSE <<Head(sorted)>> \o InsertFace_descending(Tail(sorted), face)

\* a sort that puts a face before the faces of equal left edge
RECURSIVE InsertFace_before_equal(_, _)
InsertFace_before_equal(sorted, face) ==
    IF sorted = <<>> THEN <<face>>
    ELSE IF face.x <= Head(sorted).x THEN <<face>> \o sorted
    ELSE <<Head(sorted)>> \o InsertFace_before_equal(Tail(sorted), face)

\* sorted(faces, key=lambda x: x.bbox[0]): a stable sort
RECURSIVE InsertFace(_, _)
InsertFace(sorted, face) ==
    IF sorted = <<>> THEN <<face>>
    ELSE IF face.x < Head(sorted).x THEN <<face>> \o sorted
    ELSE <<Head(sorted)>> \o InsertFace(Tail(sorted), face)

RECURSIVE sort_faces(_)
sort_faces(faces) ==
    IF faces = <<>> THEN <<>>
    ELSE InsertFace(sort_faces(SubSeq(faces, 1, Len(faces) - 1)),
                    faces[Len(faces)])

\* Python's list[k]: a negative k counts from the end
PyIndex(list, k) ==
    IF 0 <= k /\ k < Len(list) THEN [ok |-> TRUE, value |-> list[k + 1]]
    ELSE IF k < 0 /\ 0 - k <= Len(list)
         THEN [ok |-> TRUE, value |-> list[Len(list) + k + 1]]
    ELSE [ok |-> FALSE, value |-> None]

\* the upper bound test rejects the last face
get_face_rejects_last(faces, face_id) ==
    IF Len(faces) <= face_id \/ face_id < 1
    THEN [ok |-> FALSE, face |-> None,
          exc |-> [HTTPException(400, "The image includes only N faces")
                      EXCEPT !.have = Len(faces), !.requested = face_id]]
    ELSE [ok |-> TRUE, face |-> PyIndex(faces, face_id - 1).value,
          exc |-> NoExc]

\* the lower bound test lets 0 through, and faces[-1] is the last face
get_face_zero_based(faces, face_id) ==
    IF Len(faces) < face_id \/ face_id < 0
    THEN [ok |-> FALSE, face |-> None,
          exc |-> [HTTPException(400, "The image includes only N faces")
                      EXCEPT !.have = Len(faces), !.requested = face_id]]
    ELSE LET item == PyIndex(faces, face_id - 1)
         IN  IF item.ok
             THEN [ok |-> TRUE, face |-> item.value, exc |-> NoExc]
             ELSE [ok |-> FALSE, face |-> None,
                   exc |-> HTTPException(500, "An error occurred")]

get_face(faces, face_id) ==
    IF Len(faces) < face_id \/ face_id < 1
    THEN [ok |-> FALSE, face |-> None,
          exc |-> [HTTPException(400, "The image includes only N faces")
                      EXCEPT !.have = Len(faces), !.requested = face_id]]
    ELSE LET item == PyIndex(faces, face_id - 1)
         IN  IF item.ok
             THEN [ok |-> TRUE, face |-> item.value, exc |-> NoExc]
             ELSE [ok |-> FALSE, face |-> None,
                   exc |-> HTTPException(500, "An error occurred")]

bytes_per_mb == 1024 * 1024

max_image_mb == 10       \* if size_mb > 10

\* content-length of a response; -1 when the header is missing
ContentLengths == {0 - 1, max_image_mb * bytes_per_mb,
                   max_image_mb * bytes_per_mb + 1}

\* what requests.get and the image decoder do for one URL
FetchResults ==
    {[kind |-> "RequestException", content_length |-> 0 - 1, decodable |-> FALSE]}
    \cup [kind : {"ok"}, content_length : ContentLengths, decodable : BOOLEAN]

\* why a fetch is a client-caused failure, if it is one
FetchCause(r) ==
    IF r.kind = "RequestException" THEN "unfetchable"
    ELSE IF r.content_length > max_image_mb * bytes_per_mb THEN "too_large"
    ELSE IF ~r.decodable THEN "undecodable"
    ELSE None

\* requests.get(url, timeout=30, headers=headers): stream is not set, so the
\* call returns only after the whole body has been read into response.content
requests_get(r) ==
    [raised |-> r.kind = "RequestException",
     content_length |-> r.content_length,
     body_read |-> r.kind = "ok"]

\* the try block of download_image: the size check raises HTTPException(413)
\* and Image.open raises on bytes that are no image
download_image_try(r) ==
    LET response == requests_get(r)
    IN  IF response.raised
        THEN [Exception("connection error") EXCEPT !.type = "RequestException"]
        ELSE IF response.content_length # 0 - 1
                /\ response.content_length > max_image_mb * bytes_per_mb
             THEN HTTPException(413, "Image too large")
        ELSE IF ~r.decodable THEN Exception("cannot identify image file")
        ELSE NoExc

\* except requests.RequestException -> 400; except Exception -> 500
download_image(r) ==
    LET raised == download_image_try(r)
        read == IF requests_get(r).body_read THEN 1 ELSE 0
    IN  IF raised = NoExc
        THEN [ok |-> TRUE, image |-> "image", exc |-> NoExc, read |-> read]
        ELSE IF raised.type = "RequestException"
             THEN [ok |-> FALSE, image |-> None, read |-> read,
                   exc |-> HTTPException(400, "Failed to download image")]
        ELSE [ok |-> FALSE, image |-> None, read |-> read,
              exc |-> HTTPException(500, "Error processing image")]

\* the readiness check left out
models_ready_unchecked(fa, sw) == TRUE

\* if face_analysis_app is None or swapper_model is None: raise
models_ready(fa, sw) == ~(fa = 0 \/ sw = 0)

Response(endpoint, status, success, image, exc) ==
    [handler |-> endpoint, status |-> status, success |-> success,
     image |-> image, message |-> exc.detail, have |-> exc.have,
     requested |-> exc.requested, model_file_valid |-> FALSE,
     active_model |-> None]

\* swap_faces: HTTPException passes through, anything else becomes a 500
swap_faces(r) ==
    IF r.exc = NoExc
    THEN Response("swap_faces", 200, "true", r.result,
                  Exception("Face swap completed successfully"))
    ELSE IF r.exc.type = "HTTPException"
         THEN Response("swap_faces", r.exc.status, "absent", "absent", r.exc)
    ELSE Response("swap_faces", 500, "absent", "absent",
                  Exception("Face swap failed"))

\* the serverless endpoint lets HTTPException through, as /swap does
runsync_face_swap_reraises(r) ==
    [swap_faces(r) EXCEPT !.handler = "runsync_face_swap"]

\* runsync_face_swap: every exception becomes an output with success false
runsync_face_swap(r) ==
    IF r.exc = NoExc
    THEN Response("runsync_face_swap", 200, "true", r.result,
                  Exception("Face swap completed successfully"))
    ELSE IF r.exc.type = "HTTPException"
         THEN Response("runsync_face_swap", 200, "false", "absent", r.exc)
    ELSE Response("runsync_face_swap", 200, "false", "absent",
                  Exception("Face swap failed"))

\* the worker hands out what the pipeline had in hand when it failed
handler_returns_partial(r) ==
    IF r.exc = NoExc
    THEN Response("handler", 0, "true", r.result,
                  Exception("Face swap completed successfully"))
    ELSE Response("handler", 0, "false",
                  IF r.result = None THEN "absent" ELSE r.result,
                  Exception("Face swap failed"))

\* runpod_handler.handler: a dict with success, and image_base64 only when
\* the pipeline returned; there is no transport status
handler(r) ==
    IF r.exc = NoExc
    THEN Response("handler", 0, "true", r.result,
                  Exception("Face swap completed successfully"))
    ELSE Response("handler", 0, "false", "absent",
                  Exception("Face swap failed"))

(***************************************************************************)
(* The pure functions of the pipeline, called on their own                 *)
(***************************************************************************)
MaxSorted == 4       \* detections in a list that sort_faces is called on

SortLefts == {10, 20, 30}

SortInputs ==
    UNION {{Detections(xs) : xs \in [1..n -> SortLefts]} : n \in 0..MaxSorted}

\* sort_faces on a list of detections, or on the list it returned last
call_sort_faces ==
    /\ \/ \E faces \in SortInputs :
             store' = [op |-> "sort_faces", input |-> faces,
                       output |-> sort_faces(faces), resorted |-> FALSE]
       \/ /\ store.op = "sort_faces"
          /\ store' = [op |-> "sort_faces", input |-> store.output,
                       output |-> sort_faces(store.output),
                       resorted |-> TRUE]
    /\ UNCHANGED fs
    /\ storeFrame

(***************************************************************************)
(* validate_and_resize_image computes in Python floats (IEEE 754 binary64,  *)
(* round to nearest, ties to even).  Numbers too wide for the model's       *)
(* integers are sequences of limbs, digits in base Base, least significant  *)
(* limb first.                                                              *)
(***************************************************************************)
max_dimension == 1024        \* validate_and_resize_image(.., max_dimension=1024)

float_mantissa_bits == 53    \* significand of a binary64 float

limb_bits == 15

Base == 2 ^ limb_bits

Max(a, b) == IF a > b THEN a ELSE b

RECURSIVE BitLength(_)
BitLength(n) == IF n = 0 THEN 0 ELSE 1 + BitLength(n \div 2)

RECURSIVE FromLimbs(_)
FromLimbs(limbs) ==
    IF limbs = <<>> THEN 0 ELSE Head(limbs) + Base * FromLimbs(Tail(limbs))

RECURSIVE Increment(_)
Increment(limbs) ==
    IF limbs = <<>> THEN <<1>>
    ELSE IF Head(limbs) < Base - 1 THEN <<Head(limbs) + 1>> \o Tail(limbs)
    ELSE <<0>> \o Increment(Tail(limbs))

\* the number whose limbs are top (most significant limb first) divided by
\* m, by long division: q is the quotient, r the remainder
LongDivision(top, m) ==
    LET step[i \in 0..Len(top)] ==
            IF i = 0 THEN [q |-> <<>>, r |-> 0]
            ELSE LET prev == step[i - 1]
                     cur == Base * prev.r + top[i]
                 IN  [q |-> <<cur \div m>> \o prev.q, r |-> cur % m]
    IN  step[Len(top)]

Zeros(n) == [i \in 1..n |-> 0]

\* the least j with m <= a * 2^j
RECURSIVE ScaleExponent(_, _, _)
ScaleExponent(a, m, j) ==
    IF m <= a THEN j ELSE ScaleExponent(2 * a, m, j + 1)

\* the limbs of small * limbs
TimesSmall(limbs, small) ==
    LET step[i \in 0..Len(limbs)] ==
            IF i = 0 THEN [out |-> <<>>, carry |-> 0]
            ELSE LET prev == step[i - 1]
                     acc == prev.carry + limbs[i] * small
                 IN  [out |-> Append(prev.out, acc % Base),
                      carry |-> acc \div Base]
        last == step[Len(limbs)]
    IN  IF last.carry = 0 THEN last.out ELSE Append(last.out, last.carry)

\* a / m as a float, for a < m: the significand K (an integer of
\* float_mantissa_bits bits, rounded to nearest, ties to even) and the
\* exponent s, with a / m ~ K / 2^s
float_div(a, m) ==
    LET s == float_mantissa_bits - 1 + ScaleExponent(a, m, 0)
        top == <<a * 2 ^ (s % limb_bits)>> \o Zeros(s \div limb_bits)
        d == LongDivision(top, m)
        up == 2 * d.r > m \/ (2 * d.r = m /\ d.q[1] % 2 = 1)
    IN  [K |-> IF up THEN Increment(d.q) ELSE d.q, s |-> s]

\* int(n * x) for the float x = K / 2^s.  The product n * K / 2^s is
\* rounded to a float of float_mantissa_bits bits and then truncated: the
\* result is the whole part of the product, or one more when the product
\* is within half a unit in the last place of the next whole number (the
\* rounding then lands on that number, which is the even neighbour)
int_float_mul(n, x) ==
    LET k == x.s \div limb_bits
        t == x.s % limb_bits
        P0 == TimesSmall(x.K, n)
        P == IF Len(P0) < k + 1 THEN P0 \o Zeros(k + 1 - Len(P0)) ELSE P0
        upper == FromLimbs(SubSeq(P, k + 1, Len(P)))
        whole == upper \div 2 ^ t
        h == x.s + BitLength(whole) - (float_mantissa_bits + 1)
        up == /\ h >= 0
              /\ upper % 2 ^ t = 2 ^ t - 1
              /\ \A i \in 2..k : P[i] = Base - 1
              /\ P[1] >= Base - 2 ^ h
    IN  IF up THEN whole + 1 ELSE whole

\* scale = max_dimension / max(height, width)
\* new_height = int(height * scale); new_width = int(width * scale)
validate_and_resize_image(height, width) ==
    IF Max(height, width) > max_dimension
    THEN LET scale == float_div(max_dimension, Max(height, width))
         IN  [height |-> int_float_mul(height, scale),
              width |-> int_float_mul(width, scale),
              resized |-> TRUE]
    ELSE [height |-> height, width |-> width, resized |-> FALSE]

\* the sides of the images the function is called on
Sides == {1, 2, 600, 1024, 1025, 1122, 2048, 4096}

call_validate_and_resize_image ==
    /\ \E height \in Sides, width \in Sides :
          store' = [op |-> "validate_and_resize_image",
                    height |-> height, width |-> width,
                    output |-> validate_and_resize_image(height, width)]
    /\ UNCHANGED fs
    /\ storeFrame

NextPure ==
    \/ call_sort_faces
    \/ call_validate_and_resize_image

InitPure == Init /\ fs = [l \in Locations |-> "absent"]

SpecPure == InitPure /\ [][NextPure]_vars

(***************************************************************************)
(* The service: startup_event, then one handler at a time                  *)
(***************************************************************************)
Serving == call[0].pc = "returned"

SwapHandlers == {"swap_faces", "runsync_face_swap"}

\* the front ends of perform_face_swap_logic
Pipelines == SwapHandlers \cup {"handler"}

\* the pipeline raises e at a point where cleanup runs (inside the try) or
\* not (the readiness check)
Raise(e, cause, inTry) ==
    req' = [req EXCEPT !.exc = e, !.cause = cause,
                       !.pc = IF inTry THEN "cleanup" ELSE "respond"]

svcFrame == UNCHANGED <<fs, cache, face_analysis_app, swapper_model, calls,
                        bodies, successInits, call, repaired, store,
                        waiting>>

\* a POST /swap or /runsync reaches the server; uvicorn.run(app) is one
\* process with one event loop, which starts the handler when it is free
request_arrive ==
    /\ Serving
    /\ waiting < MaxWaiting
    /\ waiting' = waiting + 1
    /\ UNCHANGED <<loop, req, resp>>
    /\ UNCHANGED <<fs, cache, face_analysis_app, swapper_model, calls,
                   bodies, successInits, call, repaired, store>>

\* the handlers are coroutines that never await anything that suspends:
\* requests.get, face_analysis_app.get and swapper_model.get are plain
\* blocking calls, so the loop is taken until the handler returns
request_start(endpoint) ==
    /\ Serving
    /\ loop = None
    /\ waiting > 0
    /\ waiting' = waiting - 1
    /\ loop' = endpoint
    /\ resp' = NoResponse
    /\ \E si \in Indexes, ti \in Indexes :
          req' = [NoRequest EXCEPT !.pc = "preflight", !.source_index = si,
                                   !.target_index = ti]
    /\ UNCHANGED <<fs, cache, face_analysis_app, swapper_model, calls,
                   bodies, successInits, call, repaired, store>>

\* the readiness check logs the missing bundle and goes on
preflight_goes_on ==
    /\ loop \in Pipelines
    /\ req.pc = "preflight"
    /\ req' = [req EXCEPT !.pc = "download_source",
                          !.cause = IF models_ready(face_analysis_app,
                                                    swapper_model)
                                    THEN @ ELSE "not_ready"]
    /\ UNCHANGED <<loop, resp>>
    /\ svcFrame

\* the pipeline starts without looking at the engine references
preflight_checks_nothing ==
    /\ loop \in Pipelines
    /\ req.pc = "preflight"
    /\ req' = [req EXCEPT !.pc = "download_source"]
    /\ UNCHANGED <<loop, resp>>
    /\ svcFrame

preflight ==
    /\ loop \in Pipelines
    /\ req.pc = "preflight"
    /\ IF models_ready(face_analysis_app, swapper_model)
       THEN req' = [req EXCEPT !.pc = "download_source"]
       ELSE Raise(HTTPException(500, "Models not initialized"),
                  "not_ready", FALSE)
    /\ UNCHANGED <<loop, resp>>
    /\ svcFrame

download_source ==
    /\ loop \in Pipelines
    /\ req.pc = "download_source"
    /\ \E r \in FetchResults :
          LET d == download_image(r)
          IN  IF d.ok
              THEN req' = [req EXCEPT !.pc = "download_target",
                                      !.source_image = d.image,
                                      !.fetches = @ + 1,
                                      !.buffered = @ + d.read]
              ELSE req' = [req EXCEPT !.exc = d.exc, !.cause = FetchCause(r),
                                      !.pc = "cleanup", !.fetches = @ + 1,
                                      !.buffered = @ + d.read]
    /\ UNCHANGED <<loop, resp>>
    /\ svcFrame

download_target ==
    /\ loop \in Pipelines
    /\ req.pc = "download_target"
    /\ \E r \in FetchResults :
          LET d == download_image(r)
          IN  IF d.ok
              THEN req' = [req EXCEPT !.pc = "detect_source",
                                      !.target_image = d.image,
                                      !.fetches = @ + 1,
                                      !.buffered = @ + d.read]
              ELSE req' = [req EXCEPT !.exc = d.exc, !.cause = FetchCause(r),
                                      !.pc = "cleanup", !.fetches = @ + 1,
                                      !.buffered = @ + d.read]
    /\ UNCHANGED <<loop, resp>>
    /\ svcFrame

\* source_faces = sort_faces(face_analysis_app.get(source_image)); the
\* global is read here, and None has no attribute get
detect_source ==
    /\ loop \in Pipelines
    /\ req.pc = "detect_source"
    /\ \/ /\ face_analysis_app # 0
          /\ \E xs \in BoxLists :
                req' = [req EXCEPT !.pc = "detect_target",
                                   !.source_faces = sort_faces(Detections(xs)),
                                   !.detects = @ + 1]
       \/ /\ face_analysis_app # 0
          /\ req' = [req EXCEPT !.exc = Exception("detection failed"),
                                !.cause = "engine", !.pc = "cleanup",
                                !.detects = @ + 1]
       \/ /\ face_analysis_app = 0
          /\ Raise(Exception("NoneType has no attribute get"), "engine", TRUE)
    /\ UNCHANGED <<loop, resp>>
    /\ svcFrame

detect_target ==
    /\ loop \in Pipelines
    /\ req.pc = "detect_target"
    /\ \/ /\ face_analysis_app # 0
          /\ \E xs \in BoxLists :
                req' = [req EXCEPT !.pc = "select_source",
                                   !.target_faces = sort_faces(Detections(xs)),
                                   !.detects = @ + 1]
       \/ /\ face_analysis_app # 0
          /\ req' = [req EXCEPT !.exc = Exception("detection failed"),
                                !.cause = "engine", !.pc = "cleanup",
                                !.detects = @ + 1]
       \/ /\ face_analysis_app = 0
          /\ Raise(Exception("NoneType has no attribute get"), "engine", TRUE)
    /\ UNCHANGED <<loop, resp>>
    /\ svcFrame

select_source ==
    /\ loop \in Pipelines
    /\ req.pc = "select_source"
    /\ LET g == get_face(req.source_faces, req.source_index)
       IN  IF g.ok
           THEN req' = [req EXCEPT !.pc = "select_target",
                                   !.source_face = g.face, !.selects = @ + 1]
           ELSE req' = [req EXCEPT !.exc = g.exc, !.cause = "index",
                                   !.pc = "cleanup", !.selects = @ + 1]
    /\ UNCHANGED <<loop, resp>>
    /\ svcFrame

\* a failed selection of the target face does not stop the pipeline
select_target_goes_on ==
    /\ loop \in Pipelines
    /\ req.pc = "select_target"
    /\ LET g == get_face(req.target_faces, req.target_index)
       IN  req' = [req EXCEPT !.pc = "swap", !.target_face = g.face,
                              !.exc = g.exc,
                              !.cause = IF g.ok THEN @ ELSE "index",
                              !.selects = @ + 1]
    /\ UNCHANGED <<loop, resp>>
    /\ svcFrame

select_target ==
    /\ loop \in Pipelines
    /\ req.pc = "select_target"
    /\ LET g == get_face(req.target_faces, req.target_index)
       IN  IF g.ok
           THEN req' = [req EXCEPT !.pc = "swap",
                                   !.target_face = g.face, !.selects = @ + 1]
           ELSE req' = [req EXCEPT !.exc = g.exc, !.cause = "index",
                                   !.pc = "cleanup", !.selects = @ + 1]
    /\ UNCHANGED <<loop, resp>>
    /\ svcFrame

\* swapper_model.get(target_image, target_face, source_face, paste_back=True)
swap ==
    /\ loop \in Pipelines
    /\ req.pc = "swap"
    /\ \/ /\ swapper_model # 0
          /\ req' = [req EXCEPT !.pc = "encode", !.result = "swapped image",
                                !.swaps = @ + 1]
       \/ /\ swapper_model # 0
          /\ req' = [req EXCEPT !.exc = Exception("swap failed"),
                                !.cause = "engine", !.pc = "cleanup",
                                !.swaps = @ + 1]
       \/ /\ swapper_model = 0
          /\ Raise(Exception("NoneType has no attribute get"), "engine", TRUE)
    /\ UNCHANGED <<loop, resp>>
    /\ svcFrame

\* image_to_base64(result_image)
encode ==
    /\ loop \in Pipelines
    /\ req.pc = "encode"
    /\ \/ req' = [req EXCEPT !.pc = "cleanup", !.result = "base64 png",
                             !.encodes = @ + 1]
       \/ req' = [req EXCEPT !.exc = HTTPException(
                                 500, "Error converting image to base64"),
                             !.cause = "encode", !.pc = "cleanup",
                             !.encodes = @ + 1]
    /\ UNCHANGED <<loop, resp>>
    /\ svcFrame

\* the except block re-raises without gc.collect()
cleanup_on_success_only ==
    /\ loop \in Pipelines
    /\ req.pc = "cleanup"
    /\ req' = [req EXCEPT !.pc = "respond",
                          !.gcs = IF req.exc = NoExc THEN @ + 1 ELSE @,
                          !.source_image = None, !.target_image = None]
    /\ UNCHANGED <<loop, resp>>
    /\ svcFrame

\* del source_image, target_image, result_image; gc.collect() -- or the
\* gc.collect() of the except block, which re-raises
cleanup ==
    /\ loop \in Pipelines
    /\ req.pc = "cleanup"
    /\ req' = [req EXCEPT !.pc = "respond", !.gcs = @ + 1,
                          !.source_image = None, !.target_image = None]
    /\ UNCHANGED <<loop, resp>>
    /\ svcFrame

\* the handler maps what perform_face_swap_logic returned or raised
respond ==
    /\ loop \in Pipelines
    /\ req.pc = "respond"
    /\ resp' = IF loop = "swap_faces" THEN swap_faces(req)
               ELSE IF loop = "runsync_face_swap" THEN runsync_face_swap(req)
               ELSE handler(req)
    /\ req' = [req EXCEPT !.pc = "done", !.source_faces = <<>>,
                          !.target_faces = <<>>, !.source_face = None,
                          !.target_face = None, !.result = None]
    /\ loop' = None
    /\ svcFrame


\* the path /fix-model repairs: model_path = 'inswapper_128.onnx'
fix_model_path == <<"cwd", model_paths[2]>>

\* the memo and the globals are cleared whatever fix_corrupted_model returned
fix_model_endpoint_clears_anyway ==
    /\ Serving
    /\ loop = None
    /\ \E rmOk \in BOOLEAN, stuck \in SUBSET cache_paths :
          LET r == fix_corrupted_model(fs, fix_model_path, rmOk, stuck)
          IN  /\ fs' = r.fs
              /\ IF r.ok
                 THEN /\ loop' = "fix_model_endpoint"
                      /\ resp' = NoResponse
                      /\ UNCHANGED <<cache, face_analysis_app,
                                     swapper_model>>
                 ELSE /\ loop' = None
                      /\ resp' = Response("fix_model_endpoint", 200, "false",
                                          "absent", Exception("Model fix failed"))
                      /\ cache' = NoBundle
                      /\ face_analysis_app' = 0
                      /\ swapper_model' = 0
    /\ req' = NoRequest
    /\ UNCHANGED <<calls, bodies, successInits, call, repaired, store,
                   waiting>>

\* fix_model_endpoint up to the result of fix_corrupted_model
fix_model_endpoint ==
    /\ Serving
    /\ loop = None
    /\ \E rmOk \in BOOLEAN, stuck \in SUBSET cache_paths :
          LET r == fix_corrupted_model(fs, fix_model_path, rmOk, stuck)
          IN  /\ fs' = r.fs
              /\ IF r.ok
                 THEN /\ loop' = "fix_model_endpoint"
                      /\ resp' = NoResponse
                 ELSE /\ loop' = None
                      /\ resp' = Response("fix_model_endpoint", 200, "false",
                                          "absent", Exception("Model fix failed"))
    /\ req' = NoRequest
    /\ UNCHANGED <<cache, face_analysis_app, swapper_model, calls, bodies,
                   successInits, call, repaired, store, waiting>>

\* get_cached_models.cache_clear()
fix_model_cache_clear ==
    /\ loop = "fix_model_endpoint"
    /\ req.pc = "idle"
    /\ cache' = NoBundle
    /\ req' = [req EXCEPT !.pc = "fix_store_fa"]
    /\ UNCHANGED <<fs, face_analysis_app, swapper_model, calls, bodies,
                   successInits, call, loop, resp, repaired, store,
                   waiting>>

\* face_analysis_app = None
fix_model_store_fa ==
    /\ loop = "fix_model_endpoint"
    /\ req.pc = "fix_store_fa"
    /\ face_analysis_app' = 0
    /\ req' = [req EXCEPT !.pc = "fix_store_sw"]
    /\ UNCHANGED <<fs, cache, swapper_model, calls, bodies, successInits,
                   call, loop, resp, repaired, store, waiting>>

\* the endpoint forgets swapper_model = None
fix_model_store_sw_forgotten ==
    /\ loop = "fix_model_endpoint"
    /\ req.pc = "fix_store_sw"
    /\ req' = NoRequest
    /\ loop' = None
    /\ repaired' = TRUE
    /\ resp' = Response("fix_model_endpoint", 200, "true", "absent",
                        Exception("Model fix completed"))
    /\ UNCHANGED <<fs, cache, face_analysis_app, swapper_model, calls,
                   bodies, successInits, call, store, waiting>>

\* swapper_model = None; return {"success": True, ...}
fix_model_store_sw ==
    /\ loop = "fix_model_endpoint"
    /\ req.pc = "fix_store_sw"
    /\ swapper_model' = 0
    /\ req' = NoRequest
    /\ loop' = None
    /\ repaired' = TRUE
    /\ resp' = Response("fix_model_endpoint", 200, "true", "absent",
                        Exception("Model fix completed. Restart the application to reload models."))
    /\ UNCHANGED <<fs, cache, face_analysis_app, calls, bodies, successInits,
                   call, store, waiting>>

\* the first location, in probe order, that holds an intact file:
\* for path in possible_paths: if exists(path): if validate(path): break
RECURSIVE FirstValid(_, _, _)
FirstValid(f, paths, i) ==
    IF i > Len(paths) THEN None
    ELSE IF validate_onnx_model(f, paths[i]) THEN paths[i]
    ELSE FirstValid(f, paths, i + 1)

\* the model file the health endpoint reports: the first intact file of the
\* first variant that has one
RECURSIVE health_active_model(_, _)
health_active_model(f, i) ==
    IF i > Len(model_paths) THEN None
    ELSE LET path == FirstValid(f, possible_paths(model_paths[i]), 1)
         IN  IF path # None THEN path ELSE health_active_model(f, i + 1)

\* a health endpoint whose status does not depend on the engines
health_check_always_healthy ==
    /\ Serving
    /\ loop = None
    /\ resp' = [Response("health_check", 200, "healthy", "absent", NoExc)
                  EXCEPT !.have = IF face_analysis_app # 0 THEN 1 ELSE 0,
                         !.requested = IF swapper_model # 0 THEN 1 ELSE 0,
                         !.model_file_valid = health_active_model(fs, 1) # None,
                         !.active_model = health_active_model(fs, 1)]
    /\ req' = NoRequest
    /\ UNCHANGED <<fs, cache, face_analysis_app, swapper_model, calls, bodies,
                   successInits, call, loop, repaired, store, waiting>>

\* a health endpoint that repairs the bad files it comes across
health_check_repairs ==
    /\ Serving
    /\ loop = None
    /\ resp' = [Response("health_check", 200,
                         IF face_analysis_app # 0 /\ swapper_model # 0
                         THEN "healthy" ELSE "unhealthy",
                         "absent", NoExc)
                  EXCEPT !.have = IF face_analysis_app # 0 THEN 1 ELSE 0,
                         !.requested = IF swapper_model # 0 THEN 1 ELSE 0]
    /\ req' = NoRequest
    /\ fs' = [l \in Locations |->
                IF fs[l] \in {"corrupt", "empty"} THEN "absent" ELSE fs[l]]
    /\ UNCHANGED <<cache, face_analysis_app, swapper_model, calls, bodies,
                   successInits, call, loop, repaired, store, waiting>>

\* health_check reads the two globals; it reports the flags in have
\* (face_analysis_ready) and requested (swapper_model_ready), and the
\* model file it found intact
health_check ==
    /\ Serving
    /\ loop = None
    /\ resp' = [Response("health_check", 200,
                         IF face_analysis_app # 0 /\ swapper_model # 0
                         THEN "healthy" ELSE "unhealthy",
                         "absent", NoExc)
                  EXCEPT !.have = IF face_analysis_app # 0 THEN 1 ELSE 0,
                         !.requested = IF swapper_model # 0 THEN 1 ELSE 0,
                         !.model_file_valid = health_active_model(fs, 1) # None,
                         !.active_model = health_active_model(fs, 1)]
    /\ req' = NoRequest
    /\ UNCHANGED <<fs, cache, face_analysis_app, swapper_model, calls, bodies,
                   successInits, call, loop, repaired, store, waiting>>

\* startup_event: prepare_app() once, before any request is served
startup_event == prepare_app(0)

Next ==
    \/ startup_event
    \/ request_arrive
    \/ \E h \in SwapHandlers : request_start(h)
    \/ preflight
    \/ download_source
    \/ download_target
    \/ detect_source
    \/ detect_target
    \/ select_source
    \/ select_target
    \/ swap
    \/ encode
    \/ cleanup
    \/ respond
    \/ fix_model_endpoint
    \/ fix_model_cache_clear
    \/ fix_model_store_fa
    \/ fix_model_store_sw
    \/ health_check

\* the service starts on a disk that holds nothing, or a damaged download
\* of the first variant beside an intact second one
InitFilesService ==
    {f \in InitFiles :
        /\ f[<<"cwd", model_paths[1]>>] = "absent"
        /\ f[<<"root", model_paths[1]>>] = "absent"
        /\ f[<<"home", model_paths[2]>>] = "absent"
        /\ f[<<"root", model_paths[2]>>] = "absent"
        /\ \/ /\ f[<<"home", model_paths[1]>>] = "absent"
              /\ f[<<"cwd", model_paths[2]>>] = "absent"
           \/ /\ f[<<"home", model_paths[1]>>] = "corrupt"
              /\ f[<<"cwd", model_paths[2]>>] = "valid"}

InitService == Init /\ fs \in InitFilesService

Spec == InitService /\ [][Next]_vars

(***************************************************************************)
(* The serverless worker of runpod_handler.py: initialize() calls           *)
(* prepare_app, then handler(event) runs the same pipeline for one job at   *)
(* a time.  SpecFrontEnds has every front end of the pipeline: the two      *)
(* endpoints of the service and the handler of the worker.                  *)
(***************************************************************************)
\* an event without source_url or target_url still starts the pipeline
handler_start_skips_validation ==
    /\ Serving
    /\ loop = None
    /\ \/ /\ loop' = "handler"
          /\ resp' = NoResponse
          /\ \E si \in Indexes, ti \in Indexes,
                param \in {None, "missing_param"} :
                req' = [NoRequest EXCEPT !.pc = "preflight",
                                         !.source_index = si,
                                         !.target_index = ti,
                                         !.cause = param]
       \/ /\ loop' = None
          /\ resp' = Response("handler", 0, "false", "absent",
                              Exception("Face swap failed"))
          /\ req' = [NoRequest EXCEPT !.pc = "done", !.cause = "bad_event"]
    /\ UNCHANGED <<fs, cache, face_analysis_app, swapper_model, calls,
                   bodies, successInits, call, repaired, store, waiting>>

\* handler(event) up to the call of perform_face_swap_logic: an event
\* without source_url or target_url is answered at once, and so is an event
\* that makes the extraction of the parameters raise (the except block
\* returns the error dict)
handler_start ==
    /\ Serving
    /\ loop = None
    /\ \/ /\ loop' = "handler"
          /\ resp' = NoResponse
          /\ \E si \in Indexes, ti \in Indexes :
                req' = [NoRequest EXCEPT !.pc = "preflight",
                                         !.source_index = si,
                                         !.target_index = ti]
       \/ /\ loop' = None
          /\ resp' = Response("handler", 0, "false", "absent",
                              Exception("Missing required parameter"))
          /\ req' = [NoRequest EXCEPT !.pc = "done",
                                      !.cause = "missing_param"]
       \/ /\ loop' = None
          /\ resp' = Response("handler", 0, "false", "absent",
                              Exception("Face swap failed"))
          /\ req' = [NoRequest EXCEPT !.pc = "done", !.cause = "bad_event"]
    /\ UNCHANGED <<fs, cache, face_analysis_app, swapper_model, calls,
                   bodies, successInits, call, repaired, store, waiting>>

NextFrontEnds ==
    \/ Next
    \/ handler_start

SpecFrontEnds == InitService /\ [][NextFrontEnds]_vars


(***************************************************************************)
(* Properties                                                              *)
(***************************************************************************)
Attempts(c, v) ==
    Cardinality({i \in 1..Len(call[c].log) : call[c].log[i] = v})

\* max_retries attempts on each variant, in the order of model_paths
FullLog ==
    [i \in 1..(Len(model_paths) * max_retries) |->
        model_paths[((i - 1) \div max_retries) + 1]]

\* C1: when threads call prepare_app concurrently, the body of
\* get_cached_models completes successfully once at most, and all the
\* callers that returned hold the same bundle
C1_OneInitialization ==
    /\ successInits <= 1
    /\ \A c1 \in Threads, c2 \in Threads :
          (call[c1].pc = "returned" /\ call[c2].pc = "returned")
              => call[c1].res = call[c2].res

\* C2: only success is memoised.  While no call has succeeded, every call
\* misses and starts over: locator first, then the first variant, first
\* attempt.  Once a call has succeeded, no later call enters the body: it
\* returns the memoised bundle, the one the globals already hold, with no
\* locator construction and no load attempt
C2_MemoizesOnlySuccess ==
    LET cur == call[0]
    IN  /\ cur.pc = "raised" => cache = NoBundle
        /\ (successInits = 0 /\ cur.pc # "idle")
              => /\ ~cur.hit
                 /\ cur.id = calls
                 /\ cur.pc # "locator" => cur.built = 1
                 /\ cur.log # <<>> => cur.log[1] = model_paths[1]
                 /\ (cur.pc = "attempt" /\ cur.log = <<>>)
                       => (cur.vi = 1 /\ cur.attempt = 0)
        /\ successInits <= 1
        /\ successInits = 1
              => /\ cache # NoBundle
                 /\ cur.pc \in {"idle", "store_fa", "store_sw", "returned"}
                 /\ cur.pc # "idle" => cur.res = cache
        /\ cur.hit
              => /\ cur.built = 0 /\ cur.log = <<>> /\ cur.loads = 0
                 /\ cur.res = cache
                 /\ face_analysis_app = cur.res.fa
                 /\ swapper_model = cur.res.sw

\* a third call answered from the memo, after a failed and a successful one
C2_Witness ==
    /\ calls = 3 /\ bodies = 2 /\ successInits = 1
    /\ call[0].hit /\ call[0].pc = "returned"

\* C4: no variant is attempted more than max_retries times, and when the
\* first variant never loads and no attempt on the second fails, the body
\* ends with a bundle built from the second variant
C4_FallbackToSecondVariant ==
    LET cur == call[0]
        A == model_paths[1]
        B == model_paths[2]
    IN  /\ \A v \in VariantSet : Attempts(0, v) <= max_retries
        /\ (/\ cur.pc \in {"loaded", "raised"}
            /\ cur.err # "locator"
            /\ cur.res.variant # A
            /\ cur.fails[B] = 0)
              => /\ cur.pc = "loaded"
                 /\ cur.res.variant = B
                 /\ cur.res.sw # 0 /\ cur.res.fa # 0
                 /\ Attempts(0, A) = max_retries
                 /\ Attempts(0, B) = 1

C4_Witness ==
    /\ call[0].pc = "loaded"
    /\ call[0].res.variant = model_paths[2]
    /\ call[0].fails[model_paths[1]] = max_retries
    /\ call[0].fails[model_paths[2]] = 0

\* C5: swapper loading is bounded.  A call never makes more than
\* |variants| * max_retries attempts, never more loads than attempts, is
\* never stuck inside the body, and when it gives up it has made exactly
\* max_retries failed attempts on each variant in the order of model_paths
C5_BoundedRetries ==
    LET cur == call[0]
    IN  /\ Len(cur.log) <= Len(model_paths) * max_retries
        /\ cur.loads <= Len(cur.log)
        /\ cur.log = SubSeq(FullLog, 1, Len(cur.log))
        /\ cur.pc \in {"locator", "attempt", "except", "loaded"}
              => ENABLED prepare_app(0)
        /\ (cur.pc = "raised" /\ cur.err = "swapper")
              => /\ cur.log = FullLog
                 /\ \A v \in VariantSet : cur.fails[v] = max_retries
                 /\ cur.res = NoBundle

C5_Witness ==
    /\ call[0].pc = "raised"
    /\ call[0].err = "swapper"
    /\ call[0].loads = Len(model_paths) * max_retries


\* a handler may start now and read the two globals, or the pipeline is at
\* its readiness check
Observable == (Serving /\ loop = None) \/ req.pc = "preflight"

\* C3: whenever a handler can read the engine references, both are set or
\* both are None, and a health response never reports one flag without the
\* other
C3_BundleAllOrNothing ==
    /\ Observable => ((face_analysis_app = 0) <=> (swapper_model = 0))
    /\ (call[0].pc = "raised" /\ ~Serving)
          => (face_analysis_app = 0 /\ swapper_model = 0)
    /\ resp.handler = "health_check" => resp.have = resp.requested

\* the health endpoint answers after /fix-model cleared both references
C3_Witness ==
    /\ repaired
    /\ resp.handler = "health_check"
    /\ resp.success = "unhealthy"
    /\ resp.have = 0 /\ resp.requested = 0

\* C6 as claimed: a swap request answered after a successful /fix-model has
\* found the bundle re-initialised and was not turned away for missing models
C6_LazyReinitialization ==
    (repaired /\ resp.handler \in SwapHandlers)
        => /\ face_analysis_app # 0 /\ swapper_model # 0
           /\ resp.message # "Models not initialized"

\* C6 as amended: a successful /fix-model initialises nothing and nothing
\* initialises afterwards; both references stay None, the memo stays empty,
\* and every swap request is turned away at the readiness check, before any
\* fetch, with "Models not initialized"
C6_NoReinitialization ==
    repaired
        => /\ face_analysis_app = 0 /\ swapper_model = 0
           /\ cache = NoBundle
           /\ bodies = 1 /\ calls = 1
           /\ loop \in SwapHandlers => req.pc \in {"preflight", "respond"}
           /\ resp.handler \in SwapHandlers
                 => /\ resp.message = "Models not initialized"
                    /\ resp.status = IF resp.handler = "swap_faces"
                                     THEN 500 ELSE 200
                    /\ resp.success # "true"
                    /\ req.fetches = 0 /\ req.detects = 0 /\ req.swaps = 0

C6_Witness ==
    /\ repaired
    /\ resp.handler = "swap_faces"
    /\ resp.status = 500
    /\ resp.message = "Models not initialized"

InRange(i, list) == 1 <= i /\ i <= Len(list)

\* C7: get_face returns the face at position face_id of the ordered list
\* when 1 <= face_id <= N, and otherwise raises the 400 error that carries
\* N and face_id, and returns no face
C7_SelectByPosition ==
    /\ req.pc \in {"select_target", "swap"}
          => /\ InRange(req.source_index, req.source_faces)
             /\ req.source_face = req.source_faces[req.source_index]
    /\ req.pc = "swap"
          => /\ InRange(req.target_index, req.target_faces)
             /\ req.target_face = req.target_faces[req.target_index]
    /\ (req.pc \in {"cleanup", "respond"} /\ req.selects = 1)
          => /\ ~InRange(req.source_index, req.source_faces)
             /\ req.cause = "index"
             /\ req.exc.type = "HTTPException" /\ req.exc.status = 400
             /\ req.exc.have = Len(req.source_faces)
             /\ req.exc.requested = req.source_index
             /\ req.source_face = None
    /\ (req.pc \in {"cleanup", "respond"} /\ req.selects = 2
            /\ req.swaps = 0)
          => /\ ~InRange(req.target_index, req.target_faces)
             /\ req.cause = "index"
             /\ req.exc.type = "HTTPException" /\ req.exc.status = 400
             /\ req.exc.have = Len(req.target_faces)
             /\ req.exc.requested = req.target_index
             /\ req.target_face = None

\* the second face from the left is the one detected first
C7_Witness ==
    /\ req.pc = "select_target"
    /\ req.source_index = 2
    /\ Len(req.source_faces) = 2
    /\ req.source_face.id = 1

\* C8 as claimed: a request with source_index = 0 calls no engine
C8_NoEngineCallForIndexZero ==
    req.source_index = 0 => (req.detects = 0 /\ req.swaps = 0)

\* C8 as amended: a request with source_index = 0 never reaches the swapper
\* and never succeeds; its index is rejected with the 400 error, but only at
\* selection, after the locator has run on both images
C8_IndexZeroRejectedAtSelection ==
    (req.source_index = 0 /\ req.pc # "idle")
        => /\ req.swaps = 0
           /\ req.pc \notin {"select_target", "swap", "encode"}
           /\ req.source_face = None
           /\ req.pc = "done" => resp.success # "true"
           /\ req.selects <= 1
           /\ req.selects = 1
                 => /\ req.detects = 2 /\ req.fetches = 2
                    /\ req.cause = "index"
                    /\ req.exc.status = 400
                    /\ req.exc.requested = 0
                    /\ (req.pc = "done" /\ resp.handler = "swap_faces")
                          => resp.status = 400

C8_Witness ==
    /\ req.source_index = 0
    /\ req.pc = "done"
    /\ resp.handler = "swap_faces"
    /\ resp.status = 400
    /\ req.detects = 2

FailureCauses ==
    {"not_ready", "unfetchable", "too_large", "undecodable", "index",
     "engine", "encode"}

\* C9: /runsync answers every request with status 200, and every failure
\* of the pipeline with success false, a message and no image
C9_RunsyncAlways200 ==
    resp.handler = "runsync_face_swap"
        => /\ resp.status = 200
           /\ req.pc = "done"
           /\ req.cause \in FailureCauses
                 => /\ resp.success = "false"
                    /\ resp.message # None
                    /\ resp.image = "absent"
           /\ req.cause = None => resp.success = "true"

C9_Witness ==
    /\ resp.handler = "runsync_face_swap"
    /\ req.cause = "too_large"
    /\ resp.status = 200
    /\ resp.success = "false"

ClientCauses == {"unfetchable", "too_large", "undecodable", "index"}

\* C10: /swap reports every client-caused failure with a 4xx status, after
\* at most one fetch per image and one selection per face
C10_ClientErrorsAre4xx ==
    (resp.handler = "swap_faces" /\ req.cause \in ClientCauses)
        => /\ resp.status \in 400..499
           /\ req.fetches <= 2 /\ req.selects <= 2

\* C11: a fetch whose response declares a content length above the cap
\* fails as too large (status 413) and its body has not been read: every
\* body that was read belongs to an earlier fetch of the request
C11_TooLargeFailsBeforeBody ==
    req.cause = "too_large"
        => /\ req.exc.status = 413
           /\ req.buffered = req.fetches - 1

\* C12: a request that started its first fetch has run gc.collect() exactly
\* once when perform_face_swap_logic is left, whether it returned or raised
\* (fetch, detection, selection, swap or encoding failure), and never
\* before that; a request turned away at the readiness check never entered
\* the try block and runs none
C12_CleanupOnEveryExit ==
    /\ (req.pc \in {"respond", "done"} /\ req.fetches >= 1) => req.gcs = 1
    /\ (req.pc \in {"respond", "done"} /\ req.fetches = 0)
          => (req.gcs = 0 /\ req.cause = "not_ready")
    /\ req.pc \notin {"respond", "done"} => req.gcs = 0
    /\ req.pc = "done"
          => (req.source_image = None /\ req.target_image = None)

\* a request whose swap call raised is answered after the collection ran
C12_Witness ==
    /\ req.pc = "done"
    /\ req.cause = "engine"
    /\ req.swaps = 1
    /\ req.gcs = 1
    /\ resp.status = 500

\* C13: a swap request that finds an engine reference None is turned away
\* by the readiness check with "Models not initialized" before anything
\* else happens: no fetch, no detection, no selection, no swap; and no
\* request gets past the check while a reference is None
C13_PreflightAbortsFirst ==
    /\ (loop \in SwapHandlers
            /\ ~models_ready(face_analysis_app, swapper_model))
          => req.pc \in {"preflight", "respond"}
    /\ req.cause = "not_ready"
          => /\ req.fetches = 0 /\ req.buffered = 0 /\ req.detects = 0
             /\ req.selects = 0 /\ req.swaps = 0
             /\ req.source_image = None /\ req.target_image = None
             /\ req.exc.detail = "Models not initialized"
             /\ req.exc.status = 500
             /\ req.pc \in {"respond", "done"}
             /\ req.pc = "done"
                   => /\ resp.message = "Models not initialized"
                      /\ resp.success # "true"
                      /\ resp.image = "absent"

\* /runsync answered a request that was turned away at the readiness check
C13_Witness ==
    /\ req.pc = "done"
    /\ req.cause = "not_ready"
    /\ resp.handler = "runsync_face_swap"
    /\ resp.success = "false"
    /\ req.fetches = 0

\* C14: the stages of one request run in a fixed order.  A detection runs
\* only after both images were fetched, a selection only after both
\* detections, the swapper only after both faces were selected, the encoder
\* only after the swap returned; and once a stage has raised, the request is
\* at cleanup or beyond, so no later stage has run or will run
C14_StageOrder ==
    /\ req.fetches <= 2 /\ req.detects <= 2 /\ req.selects <= 2
    /\ req.swaps <= 1 /\ req.encodes <= 1
    /\ req.detects >= 1 => (req.fetches = 2 /\ req.buffered = 2)
    /\ req.selects >= 1 => req.detects = 2
    /\ req.swaps >= 1
          => /\ req.selects = 2
             /\ req.pc # "done"
                   => /\ InRange(req.source_index, req.source_faces)
                      /\ InRange(req.target_index, req.target_faces)
    /\ req.encodes >= 1 => (req.swaps = 1 /\ req.cause # "engine")
    /\ req.exc # NoExc
          => /\ req.pc \in {"cleanup", "respond", "done"}
             /\ req.cause \in {"unfetchable", "too_large", "undecodable"}
                   => (req.detects = 0 /\ req.selects = 0 /\ req.swaps = 0
                       /\ req.encodes = 0)
             /\ (req.cause = "engine" /\ req.swaps = 0)
                   => (req.detects >= 1 /\ req.selects = 0
                       /\ req.encodes = 0)
             /\ req.cause = "index"
                   => (req.selects >= 1 /\ req.swaps = 0 /\ req.encodes = 0)
             /\ (req.cause = "engine" /\ req.swaps = 1) => req.encodes = 0
    /\ (req.pc = "done" /\ resp.success = "true")
          => /\ req.fetches = 2 /\ req.detects = 2 /\ req.selects = 2
             /\ req.swaps = 1 /\ req.encodes = 1 /\ req.exc = NoExc

\* the detection of the target image raised: one detection returned, one
\* raised, and nothing was selected, swapped or encoded
C14_Witness ==
    /\ req.pc = "done"
    /\ req.cause = "engine"
    /\ req.detects = 2
    /\ req.selects = 0 /\ req.swaps = 0 /\ req.encodes = 0

\* C15: a step of the swapper loader in which fix_corrupted_model runs for a
\* variant removes no file of another variant: every file that disappears
\* carries the name of the variant being loaded
C15_RepairKeepsOtherFiles ==
    [][\A l \in Locations :
          (fs[l] # "absent" /\ fs'[l] = "absent")
              => l[2] = model_paths[call[0].vi]]_vars

\* C16: when fix_corrupted_model returned True for the bad file located for
\* a variant, no candidate location of that variant holds a file any more
C16_RepairedThenNotFound ==
    (store.op = "repair" /\ store.ok) => Locate(fs, store.variant) = None

\* C17: validate_onnx_model on a file of zero bytes returns False and has
\* not started ort.InferenceSession on it
C17_EmptyFileNotParsed ==
    (store.op = "validate" /\ store.file_size = 0)
        => (~store.ok /\ ~store.parse_started)

\* C18: in every attempt on a variant, if some candidate location holds an
\* intact file, the attempt loads the first such file, downloads nothing
\* and leaves that file in place
C18_FirstValidLocationLoaded ==
    [][(call[0].pc = "attempt" /\ call'[0].pc \in {"loaded", "except"})
          => LET v == model_paths[call[0].vi]
                 first == FirstValid(fs, possible_paths(v), 1)
             IN  first # None
                   => /\ call'[0].how = "local"
                      /\ call'[0].loads = call[0].loads + 1
                      /\ call'[0].local = first
                      /\ fs'[first] = "valid"]_vars

\* C19: a damaged model file is dealt with inside the call.  An attempt
\* whose located file failed validation and was removed goes on to download
\* the variant; an attempt whose get_model call returned a model ends the
\* body with a ready bundle and no error; and the call raises for the
\* swapper only after max_retries failed attempts on every variant
C19_CorruptionRecoveredLocally ==
    LET cur == call[0]
    IN  /\ (cur.pc = "except" /\ cur.how = "none")
              => fs[cur.local] # "absent"
        /\ cur.pc \in {"loaded", "except"}
              => ((cur.out = "ok") <=> (cur.pc = "loaded"))
        /\ cur.pc = "loaded"
              => /\ cur.res.fa # 0 /\ cur.res.sw # 0
                 /\ cur.res.variant = model_paths[cur.vi]
                 /\ cur.err = None
        /\ cur.pc = "raised"
              => /\ cur.err \in {"locator", "swapper"}
                 /\ cur.res = NoBundle
                 /\ cur.err = "swapper"
                       => /\ cur.log = FullLog
                          /\ \A v \in VariantSet : cur.fails[v] = max_retries

\* the first attempt finds a damaged file, removes it, downloads the
\* variant and loads it
C19_Witness ==
    /\ call[0].pc = "loaded"
    /\ call[0].how = "redownload"
    /\ call[0].log = <<model_paths[1]>>
    /\ fs[download_path(model_paths[1])] = "valid"

\* the blocking calls of the pipeline: the two fetches, the two detections
\* and the swap
BlockingStages ==
    {"download_source", "download_target", "detect_source", "detect_target",
     "swap"}

\* C20: while the request in hand is inside a fetch or an inference call,
\* a request that waits can have its handler started
C20_BlockedRequestLetsOthersRun ==
    (loop \in SwapHandlers /\ req.pc \in BlockingStages /\ waiting > 0)
        => ENABLED (\E h \in SwapHandlers : request_start(h))

\* C21: a step of the health endpoint changes no model file, neither the
\* memo of get_cached_models nor the two engine references, and starts no
\* initialization
C21_HealthIsReadOnly ==
    [][health_check
          => UNCHANGED <<fs, cache, face_analysis_app, swapper_model, calls,
                         bodies, successInits, call, repaired>>]_vars

\* the health endpoint answered while a damaged model file lay on the disk
\* and the engines were loaded
C21_Witness ==
    /\ resp.handler = "health_check"
    /\ resp.success = "healthy"
    /\ cache # NoBundle
    /\ \E l \in Locations : fs[l] = "corrupt"

\* C22: every answer of a swap front end (/swap, /runsync, the worker's
\* handler) carries the encoded image exactly when it reports success, the
\* image is the non-empty one the encoder returned, and an answer to a
\* failed request carries no image
C22_ImageIffSuccess ==
    resp.handler \in Pipelines
        => /\ (resp.success = "true") <=> (resp.image # "absent")
           /\ resp.image # "absent"
                 => /\ resp.image = "base64 png"
                    /\ req.encodes = 1 /\ req.cause = None
           /\ req.cause # None
                 => (resp.image = "absent" /\ resp.success # "true")

\* the worker answers a job whose encoding failed after the swap
C22_Witness ==
    /\ resp.handler = "handler"
    /\ req.cause = "encode"
    /\ resp.success = "false"
    /\ resp.image = "absent"

PositionIn(list, face) == CHOOSE k \in 1..Len(list) : list[k] = face

\* C23: sort_faces returns the detections it was given, each once, in
\* ascending order of the left edge, and detections with the same left edge
\* in the order they had in the input
C23_SortedStablePermutation ==
    store.op = "sort_faces"
        => LET in == store.input
               out == store.output
           IN  /\ Len(out) = Len(in)
               /\ \A i \in 1..Len(in) : \E j \in 1..Len(out) : out[j] = in[i]
               /\ \A i \in 1..Len(out), j \in 1..Len(out) :
                     i < j => /\ out[i].x <= out[j].x
                              /\ out[i].x = out[j].x
                                    => PositionIn(in, out[i])
                                         < PositionIn(in, out[j])

\* four detections, two of them with the same left edge and detected after
\* a face further right
C23_Witness ==
    /\ store.op = "sort_faces"
    /\ Len(store.input) = 4
    /\ store.input # store.output
    /\ \E i \in 1..3 : store.output[i].x = store.output[i + 1].x

\* C24: sort_faces applied to a list that sort_faces returned gives that
\* list back
C24_SortIdempotent ==
    (store.op = "sort_faces" /\ store.resorted)
        => store.output = store.input

\* the list sorted a second time has ties and was out of order at first
C24_Witness ==
    /\ store.op = "sort_faces"
    /\ store.resorted
    /\ Len(store.input) = 3
    /\ store.input[1].x = store.input[2].x
    /\ store.input[1].id # 1

\* C25: an image whose longer side exceeds max_dimension comes back with
\* its longer side equal to max_dimension and each side within one pixel
\* of its proportional size; any other image comes back as it is
C25_ResizeToCap ==
    store.op = "validate_and_resize_image"
        => LET h == store.height
               w == store.width
               m == Max(h, w)
               out == store.output
               Near(new, old) ==
                   /\ new * m - old * max_dimension <= m
                   /\ old * max_dimension - new * m <= m
           IN  IF m > max_dimension
               THEN /\ Max(out.height, out.width) = max_dimension
                    /\ Near(out.height, h)
                    /\ Near(out.width, w)
               ELSE out.height = h /\ out.width = w /\ ~out.resized

\* C26: the reduced-precision variant is tried before the full-precision
\* one, which is tried only after max_retries failed attempts on the first;
\* the variant of the bundle is the one attempted last, and once a variant
\* has loaded the body only returns: no file changes, no further attempt
C26_FirstLoadedVariantWins ==
    [][LET reduced == "inswapper_128.fp16.onnx"
           full == "inswapper_128.onnx"
           cur == call'[0]
           n == Len(cur.log)
           attempts(v) == Cardinality({i \in 1..n : cur.log[i] = v})
       IN  /\ \A i \in 1..n : \A j \in i..n :
                 cur.log[i] = full => cur.log[j] = full
           /\ attempts(full) > 0 => cur.fails[reduced] = max_retries
           /\ cur.pc = "loaded"
                 => /\ cur.res.variant = cur.log[n]
                    /\ cur.fails[cur.res.variant]
                          = attempts(cur.res.variant) - 1
                    /\ cur.res.variant = reduced => attempts(full) = 0
           /\ call[0].pc = "loaded"
                 => /\ fs' = fs
                    /\ cur.pc = "store_fa"
                    /\ cur.res = call[0].res
                    /\ cache' = call[0].res]_vars

\* the first variant loads on its second attempt while a file of the second
\* variant lies in the working directory
C26_Witness ==
    /\ call[0].pc = "loaded"
    /\ call[0].res.variant = "inswapper_128.fp16.onnx"
    /\ Len(call[0].log) = 2
    /\ fs[<<"cwd", "inswapper_128.onnx">>] # "absent"

\* C27: an attempt calls get_model on a local path only when that path is
\* the first candidate that exists and validate_onnx_model passed for it,
\* and leaves the files alone; it calls get_model to download only when no
\* candidate existed, or when the located file failed validation and
\* fix_corrupted_model removed it; an attempt whose repair failed loads
\* nothing
C27_AttemptProtocol ==
    [][(call[0].pc = "attempt" /\ call'[0].pc \in {"loaded", "except"})
          => LET v == model_paths[call[0].vi]
                 found == Locate(fs, v)
                 how == call'[0].how
             IN  /\ how = "local"
                       => /\ found # None
                          /\ validate_onnx_model(fs, found)
                          /\ call'[0].local = found
                          /\ fs' = fs
                 /\ how = "download" => found = None
                 /\ how = "redownload"
                       => /\ found # None
                          /\ ~validate_onnx_model(fs, found)
                          /\ (fs'[found] = "absent"
                                \/ found = download_path(v))
                 /\ how = "none"
                       => /\ found # None
                          /\ ~validate_onnx_model(fs, found)
                          /\ fs' = fs
                          /\ call'[0].loads = call[0].loads
                 /\ how \in {"local", "download", "redownload"}
                       => call'[0].loads = call[0].loads + 1]_vars

\* the second attempt on the first variant loads a validated cache file
\* that the repair after the first attempt could not remove
C27_Witness ==
    /\ call[0].pc = "loaded"
    /\ call[0].how = "local"
    /\ call[0].attempt = 1
    /\ call[0].local = <<"home", model_paths[1]>>

\* the path a failed attempt tried to load: the local file it had located,
\* or the location get_model downloads to
AttemptedPath(cur) ==
    IF cur.how \in {"download", "redownload"}
    THEN download_path(model_paths[cur.vi])
    ELSE cur.local

\* the except block of caller 0 starts the next attempt on the same variant
RetriesVariant ==
    /\ call[0].pc = "except"
    /\ call'[0].pc = "attempt"
    /\ call'[0].vi = call[0].vi

\* C28 as stated: before the next attempt on the same variant,
\* fix_corrupted_model is called on the path the failed attempt tried to
\* load
C28_RepairOnAttemptedPath ==
    [][RetriesVariant => call'[0].fixed = AttemptedPath(call[0])]_vars

\* C28, amended: between two consecutive attempts on the same variant
\* fix_corrupted_model is called once, on the local file the failed attempt
\* loaded (validated or not) or on the download location when get_model
\* returned no model; when the download raised, it is called on the
\* variant's path in the working directory, which holds no file.  A failed
\* attempt that is the last on its variant is followed by no repair
C28_RepairBeforeRetry ==
    [][(call[0].pc = "except")
          => LET cur == call[0]
                 v == model_paths[cur.vi]
                 fetchRaised == /\ cur.how \in {"download", "redownload"}
                                /\ cur.out = "raise"
             IN  /\ RetriesVariant <=> cur.attempt < max_retries - 1
                 /\ RetriesVariant
                       => /\ call'[0].attempt = cur.attempt + 1
                          /\ call'[0].fixed # None
                          /\ ~fetchRaised
                                => call'[0].fixed = AttemptedPath(cur)
                          /\ fetchRaised
                                => /\ call'[0].fixed = <<"cwd", v>>
                                   /\ fs[<<"cwd", v>>] = "absent"
                          /\ fs'[call'[0].fixed] = "absent" \/ fs' = fs
                 /\ ~RetriesVariant
                       => fs' = fs /\ call'[0].fixed = None]_vars

\* the third attempt on the first variant starts after a repair that
\* removed the file located in the root cache
C28_Witness ==
    /\ call[0].pc = "attempt"
    /\ call[0].attempt = 2
    /\ call[0].vi = 1
    /\ call[0].fixed = <<"root", model_paths[1]>>
    /\ fs[<<"root", model_paths[1]>>] = "absent"

\* C29: fix_corrupted_model on a located bad file returns True exactly when
\* the file itself could be removed, whether or not the backup could be
\* made; when it returns True the file is gone, and so is every model file
\* of the cache directories whose removal did not fail; when it returns
\* False no file has changed
C29_RepairBestEffort ==
    [][(store'.op = "repair" /\ store' # store)
          => LET r == store'
             IN  /\ r.ok = r.rmOk
                 /\ r.backup = r.backupOk
                 /\ r.ok
                       => /\ fs'[r.path] = "absent"
                          /\ \A d \in cache_paths \ r.stuck :
                                fs'[<<d, r.variant>>] = "absent"
                          /\ \A l \in Locations :
                                fs'[l] \in {"absent", fs[l]}
                 /\ ~r.ok => fs' = fs]_vars

\* a repair that returned True without a backup and removed the bad file
\* from the working directory and from both cache directories
C29_Witness ==
    /\ store.op = "repair"
    /\ store.ok
    /\ ~store.backup
    /\ store.path[1] = "cwd"
    /\ store.stuck = {}
    /\ \A d \in Dirs : fs[<<d, store.variant>>] = "absent"

\* C30: the located path of a variant is its file in the working
\* directory if there is one, else its file in the user cache if there is
\* one, else its file in the root cache if there is one, and None exactly
\* when none of the three exists
C30_LocateFirstExisting ==
    store.op = "locate"
        => LET v == store.variant
               at(d) == fs[<<d, v>>] # "absent"
           IN  /\ store.found = None
                     <=> (~at("cwd") /\ ~at("home") /\ ~at("root"))
               /\ at("cwd") => store.found = <<"cwd", v>>
               /\ (~at("cwd") /\ at("home")) => store.found = <<"home", v>>
               /\ (~at("cwd") /\ ~at("home") /\ at("root"))
                     => store.found = <<"root", v>>

\* the user cache copy is located while the root cache holds one too
C30_Witness ==
    /\ store.op = "locate"
    /\ store.found # None
    /\ store.found[1] = "home"
    /\ fs[<<"root", store.variant>>] # "absent"

\* C31: when FaceAnalysis cannot be built or prepared, get_cached_models
\* raises at once: the step changes no file and memoizes nothing, the call
\* has made no attempt on any variant and no load, it built the locator
\* once, and the next thing the caller can do is a new call
C31_LocatorFailureIsFatal ==
    [][LET raises == call[0].pc = "locator" /\ call'[0].err = "locator"
           raised == call[0].pc = "raised" /\ call[0].err = "locator"
       IN  /\ raises
                 => /\ call'[0].pc = "raised"
                    /\ call'[0].log = <<>>
                    /\ call'[0].loads = 0
                    /\ call'[0].built = 1
                    /\ call'[0].res = NoBundle
                    /\ fs' = fs
                    /\ cache' = cache
                    /\ bodies' = bodies
           /\ raised
                 => /\ ~ENABLED prepare_app(0)
                    /\ call'[0] = IdleCall
                    /\ fs' = fs]_vars

\* the locator failed on a disk that holds an intact first variant, and a
\* new call has started
C31_Witness ==
    /\ call[0].pc = "idle"
    /\ bodies = 1
    /\ calls = 1
    /\ successInits = 0
    /\ fs[<<"cwd", model_paths[1]>>] = "valid"

\* C32: when the failed attempt left no local path (nothing was located, or
\* the located file was repaired away, and the download raised), the repair
\* before the next attempt is called on the variant's file name in the
\* working directory, not on the location get_model downloads to
C32_RepairFallsBackToFirstPath ==
    [][(RetriesVariant /\ call[0].local = None)
          => LET v == model_paths[call[0].vi]
             IN  /\ call[0].how \in {"download", "redownload"}
                 /\ call[0].out = "raise"
                 /\ call'[0].fixed = possible_paths(v)[1]
                 /\ call'[0].fixed # download_path(v)]_vars

\* the download of the first variant raised on a disk that held only files
\* of the second: the repair was called on the working directory path while
\* the damaged download stays in the cache
C32_Witness ==
    /\ call[0].pc = "attempt"
    /\ call[0].vi = 1
    /\ call[0].attempt = 1
    /\ call[0].fixed = <<"cwd", model_paths[1]>>
    /\ fs[download_path(model_paths[1])] = "corrupt"
    /\ fs[<<"cwd", model_paths[2]>>] # "absent"
    /\ fs[<<"root", model_paths[2]>>] # "absent"

\* the stages of a request that has passed the readiness check
InFlight ==
    {"download_source", "download_target", "detect_source", "detect_target",
     "select_source", "select_target", "swap", "encode", "cleanup"}

\* C33: while a request is past the readiness check both engine references
\* are populated and no step changes them or the memoized bundle, whatever
\* other requests and /fix-model calls the service receives; no detection
\* or swap call of the request ever ran on a missing engine
C33_InFlightEnginesPopulated ==
    [][/\ (loop \in Pipelines /\ req.pc \in InFlight)
             => /\ face_analysis_app # 0
                /\ swapper_model # 0
                /\ face_analysis_app' = face_analysis_app
                /\ swapper_model' = swapper_model
                /\ cache' = cache
                /\ ~ENABLED fix_model_endpoint
                /\ req'.exc.detail # "NoneType has no attribute get"
       /\ (loop \in Pipelines /\ req.pc = "preflight"
               /\ req'.pc = "download_source")
             => (face_analysis_app # 0 /\ swapper_model # 0)]_vars

\* a request of the worker has run both detections and the swap while
\* another request waits
C33_Witness ==
    /\ loop = "handler"
    /\ req.pc = "encode"
    /\ req.detects = 2
    /\ req.swaps = 1
    /\ waiting > 0
    /\ swapper_model # 0

\* the positions of a caller inside the body of get_cached_models before
\* it has a bundle
InBody == {"locator", "attempt", "except"}

\* C34: no step of a call that is inside the body of get_cached_models and
\* has no bundle yet changes the two globals or the memo; in the step in
\* which the call raises they stay as they are, the memo does not hold
\* anything that call built, and a call that has raised does nothing more
C34_FailedInitChangesNothing ==
    [][\A c \in Threads :
          /\ (call[c].pc \in InBody /\ call'[c] # call[c])
                => /\ face_analysis_app' = face_analysis_app
                   /\ swapper_model' = swapper_model
                   /\ cache' = cache
                   /\ successInits' = successInits
          /\ call'[c].pc = "raised"
                => /\ call'[c].res = NoBundle
                   /\ cache'.sw # call'[c].id
                   /\ cache'.fa # call'[c].id
                   /\ face_analysis_app' # call'[c].id
                   /\ swapper_model' # call'[c].id
          /\ call[c].pc = "raised" => call'[c] = call[c]]_vars

\* one thread has raised after the other published its bundle: the globals
\* and the memo still hold that bundle
C34_Witness ==
    \E c \in Threads, d \in Threads :
        /\ call[c].pc = "raised"
        /\ call[c].err = "swapper"
        /\ call[d].pc = "returned"
        /\ call[d].id < call[c].id
        /\ cache # NoBundle
        /\ face_analysis_app = cache.fa
        /\ swapper_model = cache.sw

\* C35: when fix_corrupted_model fails in /fix-model, the endpoint answers
\* success false in that step and changes neither the memo, nor the two
\* globals, nor any file, and the event loop is free for the next request
C35_FailedFixKeepsEngines ==
    [][(loop = None /\ resp'.handler = "fix_model_endpoint"
           /\ resp'.success = "false" /\ req' = NoRequest)
          => /\ cache' = cache
             /\ face_analysis_app' = face_analysis_app
             /\ swapper_model' = swapper_model
             /\ repaired' = repaired
             /\ fs' = fs
             /\ loop' = None
             /\ resp'.status = 200]_vars

\* /fix-model has failed on the file in the working directory and the
\* engines loaded at startup are still in place
C35_Witness ==
    /\ resp.handler = "fix_model_endpoint"
    /\ resp.success = "false"
    /\ fs[fix_model_path] # "absent"
    /\ ~repaired
    /\ cache # NoBundle
    /\ face_analysis_app = cache.fa
    /\ swapper_model = cache.sw

\* C36: on one variant fix_corrupted_model runs at most max_retries times
\* for a located file that failed validation (once per attempt at most) and
\* at most max_retries - 1 times in the except block (once after each
\* attempt but the last); the step that follows the last failed attempt on
\* a variant changes no file and runs no repair
C36_RepairsBounded ==
    [][LET cur == call[0]
           new == call'[0]
       IN  /\ new.vfix <= max_retries
           /\ new.efix <= max_retries - 1
           /\ new.pc \in InBody => new.vfix <= new.attempt + 1
           /\ new.pc \in InBody => new.efix = new.attempt
           /\ (cur.pc = "attempt" /\ cur.vi = new.vi)
                 => new.vfix \in {cur.vfix, cur.vfix + 1}
           /\ (cur.pc = "except" /\ cur.attempt = max_retries - 1)
                 => /\ fs' = fs
                    /\ new.fixed = None
                    /\ new.pc = "raised" \/ new.vi = cur.vi + 1
                    /\ new.pc = "raised" => new.efix = cur.efix]_vars

\* every attempt on the first variant found a file that failed validation,
\* and a repair followed each attempt but the last
C36_Witness ==
    /\ call[0].pc = "except"
    /\ call[0].vi = 1
    /\ call[0].attempt = max_retries - 1
    /\ call[0].vfix = max_retries
    /\ call[0].efix = max_retries - 1

\* C37: every outcome of the worker's handler is a returned dict whose
\* success is True or False, never an exception or a transport status; an
\* event without source_url or target_url is answered success False in the
\* step that received it, and for it no image is fetched, no detection, no
\* swap and no encoding runs
C37_HandlerNeverRaises ==
    /\ resp.handler = "handler"
          => /\ resp.success \in {"true", "false"}
             /\ resp.status = 0
             /\ resp.message # None
             /\ loop = None
    /\ (loop = "handler" \/ resp.handler = "handler")
          => (req.cause = "missing_param"
                => /\ req.pc = "done"
                   /\ resp.handler = "handler"
                   /\ resp.success = "false"
                   /\ resp.image = "absent"
                   /\ req.fetches = 0 /\ req.buffered = 0
                   /\ req.detects = 0 /\ req.selects = 0
                   /\ req.swaps = 0 /\ req.encodes = 0 /\ req.gcs = 0)

\* an event without a required parameter has been answered while the
\* engines are loaded
C37_Witness ==
    /\ resp.handler = "handler"
    /\ resp.success = "false"
    /\ req.cause = "missing_param"
    /\ req.fetches = 0
    /\ face_analysis_app # 0
    /\ swapper_model # 0

\* C38: a health response says healthy exactly when it reports both
\* face_analysis_ready and swapper_model_ready, each flag is true exactly
\* when its global is populated, and once /fix-model has succeeded every
\* health response says unhealthy with both flags false
C38_HealthReflectsEngines ==
    resp.handler = "health_check"
        => /\ resp.status = 200
           /\ resp.success \in {"healthy", "unhealthy"}
           /\ resp.success = "healthy"
                 <=> (resp.have = 1 /\ resp.requested = 1)
           /\ resp.have = 1 <=> face_analysis_app # 0
           /\ resp.requested = 1 <=> swapper_model # 0
           /\ resp.have \in {0, 1} /\ resp.requested \in {0, 1}
           /\ repaired
                 => /\ resp.success = "unhealthy"
                    /\ resp.have = 0 /\ resp.requested = 0

\* the health endpoint answers after a successful /fix-model while an
\* intact model file is on the disk
C38_Witness ==
    /\ resp.handler = "health_check"
    /\ repaired
    /\ resp.success = "unhealthy"
    /\ resp.model_file_valid

\* C39: for an image of height and width at least 1, both sides of what
\* validate_and_resize_image computes are at least 1 and at most
\* max_dimension when the image is resized
C39_TargetSidesInRange ==
    (store.op = "validate_and_resize_image" /\ store.output.resized)
        => /\ store.height >= 1 /\ store.width >= 1
           /\ store.output.height >= 1
           /\ store.output.width >= 1
           /\ store.output.height <= max_dimension
           /\ store.output.width <= max_dimension

=============================================================================
